---------------------------- MODULE Spec2Model ----------------------------
(***************************************************************************)
(* Model of the MQTT session code of ProjetoP2_IoT:                        *)
(*   src/src/services/mqtt.c        event handler, dispatch, start, publish*)
(*   src/src/services/mqtt_system.h statistics record, public API          *)
(*   src/src/tasks/custom_publish_task.c  periodic publisher               *)
(*   src/src/tasks/sensor_simulate_task.c periodic publisher               *)
(*   src/unnamed/part_000           app_main: the start and the tasks      *)
(* Strings are TLA+ strings (text without an embedded NUL byte); a C       *)
(* buffer holding a string is the string before its terminator.            *)
(***************************************************************************)
EXTENDS Integers, Sequences, FiniteSets, TLC

VARIABLES
    mqtt_client,    \* the global handle (mqtt.c:24): NULL or a client
    session,        \* state of the transport session, as its events tell it
    connects,       \* number of MQTT_EVENT_CONNECTED events handled
    subLog,         \* every esp_mqtt_client_subscribe call made, in order
    live,           \* the transport clients that exist (created, not destroyed)
    clients,        \* number of transport clients created so far
    configs,        \* per client created: its configuration and its start
    retained,       \* the broker's retained message on the status topic
    stats,          \* mqtt_statistics_t (mqtt_system.h:65-73)
    last,           \* the most recent operation and what it did
    custom_pc,      \* custom_publish_task: where the loop stands
    publish_count,  \* custom_publish_task: its local counter
    custom_client,  \* custom_publish_task: the handle its publish call tested
    pub_pc,         \* mqtt_publisher_task: where the loop stands
    contador,       \* mqtt_publisher_task: its local counter
    temperatura,    \* mqtt_publisher_task: this cycle's temperature, in tenths
    umidade,        \* mqtt_publisher_task: this cycle's humidity, in tenths
    sensor_pc,      \* sensor_simulate_task: where the loop stands
    lastCnt         \* per task, the counter its latest telemetry call carried

sessVars == <<mqtt_client, session, connects, subLog, live, clients, configs>>

brokerVars == <<retained>>

customVars == <<custom_pc, publish_count, custom_client>>

publisherVars == <<pub_pc, contador, temperatura, umidade>>

sensorVars == <<sensor_pc>>

vars == <<sessVars, brokerVars, stats, last, customVars, publisherVars, sensorVars, lastCnt>>

\* ------------------------------------------------------------------ bounds

MaxConnects == 2
MaxPublishCount == 2
MaxTime == 1
MaxStat == 2
MaxLenProbe == 2
MaxClients == 2
MaxContador == 2
MaxRandProbe == 50

\* ------------------------------------------------------- program constants

NULL == 0
TOPIC_STR_SIZE == 128
DATA_STR_SIZE == 256
BOMBA_CMP_LEN == 24
VALVULA_CMP_LEN == 27
VALVULA_NUM_INDEX == 27
INT_MIN == -2147483647 - 1
INT_MAX == 2147483647

\* ----------------------------------------------------------- C library

Min(a, b) == IF a < b THEN a ELSE b

CharAt(s, i) == SubSeq(s, i, i)

strlen(s) == Len(s)

\* a < b with both operands converted to a 32-bit unsigned type, as C does
\* when an int meets a size_t.
UnsignedLess(a, b) ==
    IF (a < 0) = (b < 0) THEN a < b ELSE b < 0

\* strcmp(a, b): 0 when the two strings are equal (only == 0 is ever tested).
strcmp(a, b) == IF a = b THEN 0 ELSE 1

\* strncmp(a, b, n): compares at most n characters and stops at a terminator,
\* so a string shorter than n only equals a string of the same length.
strncmp(a, b, n) ==
    IF SubSeq(a, 1, Min(n, Len(a))) = SubSeq(b, 1, Min(n, Len(b))) THEN 0 ELSE 1

\* strstr(h, needle) != NULL
strstr(h, needle) ==
    \E i \in 1..(Len(h) - Len(needle) + 1) :
        SubSeq(h, i, i + Len(needle) - 1) = needle

Digits == <<"0", "1", "2", "3", "4", "5", "6", "7", "8", "9">>

IsDigit(c) == \E d \in 1..10 : Digits[d] = c

DigitVal(c) == (CHOOSE d \in 1..10 : Digits[d] = c) - 1

\* A uint32_t, held as its two 16-bit halves: the value is hi * 2^16 + lo.
Half == 65536

U32(hi, lo) == [ hi |-> hi, lo |-> lo ]

\* u % m in unsigned 32-bit arithmetic, for a divisor below 2^15.
U32Mod(u, m) == U32(0, ((u.hi % m) * (Half % m) + (u.lo % m)) % m)

\* Variant: a subtraction that stops at zero instead of wrapping.
U32Sub_nowrap(a, b) ==
    IF a.hi < b.hi \/ (a.hi = b.hi /\ a.lo < b.lo) THEN U32(0, 0)
    ELSE LET borrow == IF a.lo < b.lo THEN 1 ELSE 0
         IN  U32(a.hi - b.hi - borrow, (a.lo - b.lo + Half) % Half)

\* a - b in unsigned 32-bit arithmetic: modulo 2^32.
U32Sub(a, b) ==
    LET borrow == IF a.lo < b.lo THEN 1 ELSE 0
    IN  U32((a.hi - b.hi - borrow + Half) % Half, (a.lo - b.lo + Half) % Half)

\* The uint32_t stored in an int: the same 32 bits read as a signed value.
ToInt(u) ==
    IF u.hi < Half \div 2 THEN u.hi * Half + u.lo
    ELSE (u.hi - Half) * Half + u.lo

\* u * 10 + d in unsigned 32-bit arithmetic, for a digit d.
U32MulAdd10(u, d) ==
    LET lo == u.lo * 10 + d
    IN  U32((u.hi * 10 + lo \div Half) % Half, lo % Half)

\* The vertical tab, '\v' in C: the character of code 11, written here as the
\* character itself.
VT == ""

\* isspace in the C locale: space, \t, \n, \v, \f, \r.
IsSpace(c) == c \in { " ", "\t", "\n", VT, "\f", "\r" }

RECURSIVE SkipSpace(_)
SkipSpace(s) ==
    IF Len(s) > 0 /\ IsSpace(CharAt(s, 1)) THEN SkipSpace(SubSeq(s, 2, Len(s)))
    ELSE s

\* The decimal digits a string starts with.
RECURSIVE LeadingDigits(_)
LeadingDigits(s) ==
    IF Len(s) = 0 \/ ~IsDigit(CharAt(s, 1)) THEN ""
    ELSE CharAt(s, 1) \o LeadingDigits(SubSeq(s, 2, Len(s)))

RECURSIVE StripZeros(_)
StripZeros(ds) ==
    IF Len(ds) > 0 /\ CharAt(ds, 1) = "0" THEN StripZeros(SubSeq(ds, 2, Len(ds)))
    ELSE ds

\* a > b for two digit strings of the same length.
RECURSIVE DecGreater(_, _)
DecGreater(a, b) ==
    /\ Len(a) > 0
    /\ \/ DigitVal(CharAt(a, 1)) > DigitVal(CharAt(b, 1))
       \/ /\ CharAt(a, 1) = CharAt(b, 1)
          /\ DecGreater(SubSeq(a, 2, Len(a)), SubSeq(b, 2, Len(b)))

\* The number written by the digits ds is above the one written by limit.
Exceeds(ds, limit) ==
    LET d == StripZeros(ds)
    IN  Len(d) > Len(limit) \/ (Len(d) = Len(limit) /\ DecGreater(d, limit))

\* The low 32 bits of the number written by the digits ds, after acc.
RECURSIVE U32Dec(_, _)
U32Dec(ds, acc) ==
    IF Len(ds) = 0 THEN acc
    ELSE U32Dec(SubSeq(ds, 2, Len(ds)), U32MulAdd10(acc, DigitVal(CharAt(ds, 1))))

\* atoi(s) is (int) strtol(s, NULL, 10): white space skipped, an optional
\* sign, then the leading decimal digits; 0 when there are none. strtol
\* stops at LONG_MAX or LONG_MIN, a long of 64 bits, and the int keeps the
\* low 32 bits of the long.
atoi(s) ==
    LET t    == SkipSpace(s)
        sign == IF Len(t) > 0 /\ CharAt(t, 1) \in { "-", "+" }
                THEN CharAt(t, 1) ELSE ""
        ds   == LeadingDigits(SubSeq(t, Len(sign) + 1, Len(t)))
    IN  IF sign = "-"
        THEN IF Exceeds(ds, "9223372036854775808") THEN 0
             ELSE ToInt(U32Sub(U32(0, 0), U32Dec(ds, U32(0, 0))))
        ELSE IF Exceeds(ds, "9223372036854775807") THEN 0 - 1
             ELSE ToInt(U32Dec(ds, U32(0, 0)))

RECURSIVE Rep(_, _)
Rep(s, n) == IF n = 0 THEN "" ELSE s \o Rep(s, n - 1)


\* ------------------------------------------------- processar_mensagem_mqtt

\* Variant: the comparison made on signed values.
CopyLen_signed(len, size) ==
    IF len < size - 1 THEN len ELSE size - 1

\* copy_len = len < (sizeof(buf) - 1) ? len : (sizeof(buf) - 1): sizeof is a
\* size_t, so the int len is compared as an unsigned value.
CopyLen(len, size) ==
    IF UnsignedLess(len, size - 1) THEN len ELSE size - 1

\* memcpy(dst, src, n); dst[n] = '\0': the string left in dst.
CopyBounded(src, len, size) == SubSeq(src, 1, CopyLen(len, size))

IsBomba(topic_str) ==
    strncmp(topic_str, "demo/comandos/bomba", BOMBA_CMP_LEN) = 0

IsValvula(topic_str) ==
    strncmp(topic_str, "demo/comandos/valvula/", VALVULA_CMP_LEN) = 0

IsTemperatura(topic_str) == strstr(topic_str, "temperatura")

\* Variant: the payload compared over the length of the command only.
BombaComando_prefix(data_str) ==
    IF strncmp(data_str, "LIGAR", 5) = 0 THEN "on"
    ELSE IF strncmp(data_str, "DESLIGAR", 8) = 0 THEN "off"
    ELSE "warn"

\* The pump branch: "on" and "off" stand for the two actuations, "warn" for
\* the warning about an unknown command.
BombaComando(data_str) ==
    IF strcmp(data_str, "LIGAR") = 0 THEN "on"
    ELSE IF strcmp(data_str, "DESLIGAR") = 0 THEN "off"
    ELSE "warn"

\* What atoi returns when it reads bytes of topic_str that were never written
\* (the buffer is an uninitialised stack array): the bytes are whatever the
\* stack held, so every int is possible. No value is chosen among them: the
\* number is left indeterminate, and stands for any int.
Indeterminate == "any int"

GarbageInts == { Indeterminate }

\* atoi(&topic_str[27]): index 27 lies in the string, on its terminator, or
\* past it in the uninitialised rest of the buffer.
ValvulaNum(topic_str, garbage) ==
    IF VALVULA_NUM_INDEX <= Len(topic_str)
    THEN atoi(SubSeq(topic_str, VALVULA_NUM_INDEX + 1, Len(topic_str)))
    ELSE garbage

\* What that read can give for this topic: an indeterminate int when the
\* valve branch reads past the terminator, and nothing to choose otherwise.
GarbageRead(topic_str) ==
    IF IsValvula(topic_str) /\ VALVULA_NUM_INDEX > Len(topic_str)
    THEN GarbageInts ELSE {0}

Invocation(h, act, num, data_str) ==
    [h |-> h, act |-> act, num |-> num, data |-> data_str]

\* Variant: the branches written without 'else', so that a branch taken runs
\* on into the handlers below it.
processar_mensagem_mqtt_fallthrough(topic, topic_len, data, data_len, garbage) ==
    LET topic_str == CopyBounded(topic, topic_len, TOPIC_STR_SIZE)
        data_str  == CopyBounded(data, data_len, DATA_STR_SIZE)
        bomba  == <<Invocation("bomba", BombaComando(data_str), 0, data_str)>>
        valv   == <<Invocation("valvula", "cmd",
                               ValvulaNum(topic_str, garbage), data_str)>>
        temp   == <<Invocation("temperatura", "leitura", 0, data_str)>>
    IN  IF IsBomba(topic_str) THEN bomba \o valv \o temp
        ELSE IF IsValvula(topic_str) THEN valv \o temp
        ELSE IF IsTemperatura(topic_str) THEN temp
        ELSE <<>>

\* The handlers a message runs, in the order they run (none: the topic is
\* only logged as not handled).
processar_mensagem_mqtt(topic, topic_len, data, data_len, garbage) ==
    LET topic_str == CopyBounded(topic, topic_len, TOPIC_STR_SIZE)
        data_str  == CopyBounded(data, data_len, DATA_STR_SIZE)
    IN  IF IsBomba(topic_str)
        THEN <<Invocation("bomba", BombaComando(data_str), 0, data_str)>>
        ELSE IF IsValvula(topic_str)
        THEN <<Invocation("valvula", "cmd",
                          ValvulaNum(topic_str, garbage), data_str)>>
        ELSE IF IsTemperatura(topic_str)
        THEN <<Invocation("temperatura", "leitura", 0, data_str)>>
        ELSE <<>>

\* ------------------------------------------------------------ inputs

LongTopic == "jardim/" \o Rep("x", 110) \o "/temperatura"

LongPayload == "LIGAR" \o Rep("x", 255)

InTopics ==
    { "demo/comandos/bomba", "demo/comandos/bomba/1",
      "demo/comandos/valvula/", "demo/comandos/valvula/3",
      "demo/comandos/valvula/12345", "demo/comandos/luz",
      "demo/comandos/temperatura", "jardim/sensor1/temperatura",
      "jardim/sensor1/umidade", "jardim/a/b/temperatura",
      "casa/sala/temperatura", LongTopic }

InPayloads ==
    { "LIGAR", "DESLIGAR", "ligar", "LIGAR ", "", "21.5", "40", LongPayload }

OutTopics == { "demo/status/central", "jardim/central/temperatura" }

OutPayloads == { "ONLINE", "23.50" }

OutLens == { 0, 3 }

QosLevels == { 0, 1 }

\* What esp_mqtt_client_publish may return: a message id, or a negative
\* value when it refuses the message.
TransportRets == { -2, 0, 1 }

Times == 1..MaxTime

SessionStates == { "Idle", "Connecting", "Connected", "Disconnected", "Faulted" }


\* --------------------------------------------------------- statistics

ZeroStats ==
    [ total_publicadas |-> 0, total_recebidas |-> 0, falhas_publicacao |-> 0,
      desconexoes |-> 0, tempo_desconectado_ms |-> 0, ultima_mensagem_ts |-> 0 ]

\* ----------------------------------------------------- mqtt_publish_data

\* Variant: the transport's answer returned as it came.
PublishTransport_rawret(client, topic, data, len, qos, retain, tret) ==
    LET n == IF len = 0 THEN strlen(data) ELSE len
        call == [ fn |-> "publish", client |-> client, topic |-> topic,
                  data |-> data, len |-> n, qos |-> qos,
                  retain |-> IF retain THEN 1 ELSE 0 ]
    IN  [ ret |-> tret, calls |-> <<call>> ]

\* Lines 452-476, after the NULL test: the length, the call of
\* esp_mqtt_client_publish with the handle read at line 460, and the value
\* returned, given what the transport answers (tret).
PublishTransport(client, topic, data, len, qos, retain, tret) ==
    LET n == IF len = 0 THEN strlen(data) ELSE len
        call == [ fn |-> "publish", client |-> client, topic |-> topic,
                  data |-> data, len |-> n, qos |-> qos,
                  retain |-> IF retain THEN 1 ELSE 0 ]
    IN  [ ret |-> IF tret < 0 THEN -1 ELSE tret, calls |-> <<call>> ]

\* Variant: no test of the handle.
mqtt_publish_data_unchecked(client, topic, data, len, qos, retain, tret) ==
    PublishTransport(client, topic, data, len, qos, retain, tret)

\* What one call does when nothing changes the handle while it runs: the
\* value returned and the calls made to the transport.
mqtt_publish_data(client, topic, data, len, qos, retain, tret) ==
    IF client = NULL
    THEN [ ret |-> -1, calls |-> <<>> ]
    ELSE PublishTransport(client, topic, data, len, qos, retain, tret)

ESP_OK == 0

\* custom_publish_task compares the result with ESP_OK and logs the
\* publication as made, or else as failed.
CustomReport(ret) == IF ret = ESP_OK THEN "success" ELSE "failure"

\* What the caller reports of the result: only custom_publish_task looks at
\* it.
Reported(caller, ret) ==
    IF caller = "custom_publish_task" THEN CustomReport(ret) ELSE "none"

\* The record left by a call: who called, in which session state, with what,
\* the handle tested at line 443, the handle h used at line 460 and whether
\* it was an existing client, the result r of the call, and the statistics as
\* they were before it.
CallRecord(caller, tested, h, r, topic, data, len, qos, retain, tret, now) ==
    [ op |-> "publish", caller |-> caller, session |-> session,
      topic |-> topic, data |-> data, len |-> len, qos |-> qos,
      retain |-> retain, tret |-> tret, now |-> now,
      ret |-> r.ret, calls |-> r.calls, pre |-> stats,
      tested |-> tested, tested_valid |-> tested \in live,
      client |-> h, valid |-> h \in live,
      reported |-> Reported(caller, r.ret) ]

PublishRecord(caller, topic, data, len, qos, retain, tret, now) ==
    CallRecord(caller, mqtt_client, mqtt_client,
               mqtt_publish_data(mqtt_client, topic, data, len, qos, retain, tret),
               topic, data, len, qos, retain, tret, now)

\* A call of the public function by any task, in any state.
PublishCall ==
    \E topic \in OutTopics, data \in OutPayloads, len \in OutLens,
       qos \in QosLevels, retain \in BOOLEAN, tret \in TransportRets,
       now \in Times :
        /\ last' = PublishRecord("api", topic, data, len, qos, retain, tret, now)
        /\ UNCHANGED <<sessVars, stats, brokerVars, customVars, publisherVars, sensorVars,
                       lastCnt>>

\* ------------------------------------------------------------ the broker

\* The broker holds no retained message on a topic nothing was retained on.
NoMessage == ""

\* What the broker holds on the status topic: the retained message and the
\* one it took the place of.
NothingRetained == [ msg |-> NoMessage, over |-> NoMessage ]

\* A retained message received: it takes the place of the one held.
Store(m) ==
    IF retained.msg = m THEN retained ELSE [ msg |-> m, over |-> retained.msg ]

\* --------------------------------------------------------- mqtt_app_start

\* Nothing in the function tests whether a client exists already.
\* esp_mqtt_client_init may fail (NULL), esp_mqtt_client_start may fail; the
\* handle is stored in the global before either is known, over the handle
\* that was there, and a client created earlier is neither stopped nor
\* destroyed. Once the new client is started the session is its session.
\* Variant: a last will that is not retained.
MqttCfg_noretain ==
    [ client_id |-> "esp32_jardim_central",
      last_will |-> [ topic |-> "demo/status/central", msg |-> "OFFLINE",
                      msg_len |-> 7, qos |-> 1, retain |-> FALSE ],
      keepalive |-> 60, disable_auto_reconnect |-> FALSE ]

\* mqtt_cfg, the configuration esp_mqtt_client_init is given: the identity,
\* the last will, the keepalive and the reconnection setting.
MqttCfg ==
    [ client_id |-> "esp32_jardim_central",
      last_will |-> [ topic |-> "demo/status/central", msg |-> "OFFLINE",
                      msg_len |-> 7, qos |-> 1, retain |-> TRUE ],
      keepalive |-> 60, disable_auto_reconnect |-> FALSE ]

\* Variant: the client started before the handler is registered.
StartSteps_late ==
    << "esp_mqtt_client_init", "esp_mqtt_client_start",
       "esp_mqtt_client_register_event" >>

\* The transport calls of mqtt_app_start, in the order they are made.
StartSteps ==
    << "esp_mqtt_client_init", "esp_mqtt_client_register_event",
       "esp_mqtt_client_start" >>

Position(seq, x) == CHOOSE i \in 1..Len(seq) : seq[i] = x

Before(seq, x, y) ==
    /\ \E i \in 1..Len(seq) : seq[i] = x
    /\ \E i \in 1..Len(seq) : seq[i] = y
    /\ Position(seq, x) < Position(seq, y)

\* The calls made up to the first that fails; a failed
\* esp_mqtt_client_init ends the function.
StepsRun(outcome) ==
    IF outcome = "init_failed"
    THEN SubSeq(StartSteps, 1, Position(StartSteps, "esp_mqtt_client_init"))
    ELSE StartSteps

\* What a created client holds: the configuration it was created with,
\* whether mqtt_event_handler was registered on it before it was started,
\* and whether its start succeeded.
Created(outcome) ==
    [ cfg |-> MqttCfg,
      handler |-> Before(StartSteps, "esp_mqtt_client_register_event",
                         "esp_mqtt_client_start"),
      started |-> outcome = "started" ]

mqtt_app_start ==
    /\ clients < MaxClients
    /\ \E outcome \in { "init_failed", "start_failed", "started" } :
        /\ mqtt_client' = IF outcome = "init_failed" THEN NULL ELSE clients + 1
        /\ live' = IF outcome = "init_failed" THEN live ELSE live \cup { clients + 1 }
        /\ clients' = IF outcome = "init_failed" THEN clients ELSE clients + 1
        /\ configs' = IF outcome = "init_failed" THEN configs
                       ELSE Append(configs, Created(outcome))
        /\ session' = IF outcome = "started" THEN "Connecting" ELSE session
        /\ last' = [ op |-> "mqtt_app_start", outcome |-> outcome,
                     ret |-> IF outcome = "started" THEN clients + 1 ELSE NULL,
                     from |-> session, pre_client |-> mqtt_client,
                     pre_live |-> live, calls |-> <<>>,
                     steps |-> StepsRun(outcome) ]
    /\ UNCHANGED <<connects, subLog, stats, brokerVars, customVars, publisherVars,
                   sensorVars, lastCnt>>

\* mqtt_system_init, declared in mqtt_system.h:110-115 and called once by
\* app_main: the start of a system that has no session.
mqtt_system_init ==
    /\ session = "Idle"
    /\ mqtt_app_start

\* ---------------------------------------------------- mqtt_system_shutdown

\* Declared in mqtt_system.h:117-121: ends the session and releases the
\* client held in the global handle.
mqtt_system_shutdown ==
    /\ mqtt_client' = NULL
    /\ live' = live \ { mqtt_client }
    /\ session' = "Idle"
    /\ last' = [ op |-> "mqtt_system_shutdown", from |-> session,
                 pre_client |-> mqtt_client, calls |-> <<>> ]
    /\ UNCHANGED <<connects, subLog, clients, configs, stats, brokerVars, customVars, publisherVars,
                   sensorVars, lastCnt>>

\* ------------------------------------------------------ mqtt_event_handler

\* Variant: the two subscribe calls in the other order.
OnConnectedSubscribes_swapped ==
    << [ fn |-> "subscribe", topic |-> "demo/comandos/#", qos |-> 1 ],
       [ fn |-> "subscribe", topic |-> "jardim/+/temperatura", qos |-> 0 ] >>

\* The subscribe calls of the MQTT_EVENT_CONNECTED case, in order.
OnConnectedSubscribes ==
    << [ fn |-> "subscribe", topic |-> "jardim/+/temperatura", qos |-> 0 ],
       [ fn |-> "subscribe", topic |-> "demo/comandos/#", qos |-> 1 ] >>

\* The client whose session it is: the one started last.
SessionClient ==
    CHOOSE c \in DOMAIN configs :
        /\ configs[c].started
        /\ \A d \in DOMAIN configs : configs[d].started => d <= c

\* The transport hands an event to the handlers registered when it emits
\* it. A client started with mqtt_event_handler registered delivers every
\* event to it; one started without may emit events before the registration.
Delivery == IF configs[SessionClient].handler THEN { TRUE } ELSE BOOLEAN

MQTT_EVENT_CONNECTED ==
    /\ session \in { "Connecting", "Disconnected", "Faulted" }
    /\ connects < MaxConnects
    /\ session' = "Connected"
    /\ connects' = connects + 1
    /\ \E delivered \in Delivery :
        /\ subLog' = IF delivered THEN subLog \o OnConnectedSubscribes
                      ELSE subLog
        /\ last' = [ op |-> "MQTT_EVENT_CONNECTED", from |-> session,
                     delivered |-> delivered,
                     calls |-> IF delivered THEN OnConnectedSubscribes
                               ELSE <<>> ]
    /\ UNCHANGED <<mqtt_client, live, clients, configs, stats, brokerVars, customVars, publisherVars,
                   sensorVars, lastCnt>>

\* The MQTT_EVENT_DISCONNECTED case only logs.
MQTT_EVENT_DISCONNECTED ==
    /\ session = "Connected"
    /\ session' = "Disconnected"
    /\ \E delivered \in Delivery :
        last' = [ op |-> "MQTT_EVENT_DISCONNECTED", from |-> session,
                  delivered |-> delivered, calls |-> <<>>, pre |-> stats ]
    /\ UNCHANGED <<mqtt_client, connects, subLog, live, clients, configs, stats, brokerVars,
                   customVars, publisherVars, sensorVars, lastCnt>>

MQTT_EVENT_DATA ==
    /\ session = "Connected"
    /\ \E topic \in InTopics, data \in InPayloads, delivered \in Delivery :
       \E garbage \in GarbageRead(CopyBounded(topic, Len(topic), TOPIC_STR_SIZE)) :
        last' = [ op |-> "MQTT_EVENT_DATA", topic |-> topic, data |-> data,
                  calls |-> <<>>, delivered |-> delivered,
                  dispatch |-> IF delivered THEN <<"processar_mensagem_mqtt">>
                               ELSE <<>>,
                  handlers |-> IF delivered
                               THEN processar_mensagem_mqtt(topic, Len(topic),
                                                       data, Len(data), garbage)
                               ELSE <<>> ]
    /\ UNCHANGED <<sessVars, stats, brokerVars, customVars, publisherVars, sensorVars,
                   lastCnt>>

\* The MQTT_EVENT_ERROR case only logs.
MQTT_EVENT_ERROR ==
    /\ session \in { "Connecting", "Connected", "Disconnected" }
    /\ session' = IF session = "Connecting" THEN "Faulted" ELSE session
    /\ \E delivered \in Delivery :
        last' = [ op |-> "MQTT_EVENT_ERROR", from |-> session,
                  delivered |-> delivered, calls |-> <<>> ]
    /\ UNCHANGED <<mqtt_client, connects, subLog, live, clients, configs, stats, brokerVars,
                   customVars, publisherVars, sensorVars, lastCnt>>

\* SUBSCRIBED, UNSUBSCRIBED, PUBLISHED and the default case only log.
MQTT_EVENT_OTHER ==
    /\ session # "Idle"
    /\ \E id \in { "MQTT_EVENT_SUBSCRIBED", "MQTT_EVENT_UNSUBSCRIBED",
                   "MQTT_EVENT_PUBLISHED", "default" },
          delivered \in Delivery :
        last' = [ op |-> id, delivered |-> delivered, calls |-> <<>> ]
    /\ UNCHANGED <<sessVars, stats, brokerVars, customVars, publisherVars, sensorVars,
                   lastCnt>>

\* ---------------------------------------------------- custom_publish_task

mqtt_system_is_connected == session = "Connected"

\* CUSTOM_PUBLISH_TOPIC comes from tasks/custom_publish_task.h.
CUSTOM_PUBLISH_TOPIC == "demo/central/custom"

\* No task reads a clock: the time of a task's call is left at the first
\* clock value.
TaskTime == CHOOSE t \in Times : \A u \in Times : t <= u

CustomMsg(n) ==
    "{\"publish_count\":" \o ToString(n) \o ",\"status\":\"operational\"}"

\* The tasks whose messages carry a counter.
CounterTasks == { "mqtt_publisher_task", "custom_publish_task" }

Sent(task, n) == [ lastCnt EXCEPT ![task] = n ]

\* Variant: the counter left as it is.
Incremented_stuck(c, max) == c

\* A counter of type uint32_t one higher; the counters are kept to the values
\* 0..max and wrap there as the type does at its own width.
Incremented(c, max) == (c + 1) % (max + 1)

\* After the delay: the connectivity test, and the counter's increment. The
\* tasks exist once mqtt_system_init has returned. A capped run stops short
\* of the counter's wrap.
custom_poll(capped) ==
    /\ custom_pc = "delay"
    /\ clients > 0
    /\ IF mqtt_system_is_connected
       THEN /\ capped => publish_count < MaxPublishCount
            /\ publish_count' = Incremented(publish_count, MaxPublishCount)
            /\ custom_pc' = "publish"
            /\ last' = [ op |-> "custom_check", connected |-> TRUE, calls |-> <<>> ]
       ELSE /\ last' = [ op |-> "custom_check", connected |-> FALSE, calls |-> <<>> ]
            /\ UNCHANGED <<custom_pc, publish_count>>
    /\ UNCHANGED <<sessVars, stats, brokerVars, custom_client, publisherVars, sensorVars,
                   lastCnt>>

custom_check == custom_poll(TRUE)

\* Variant: the loop left when a publish fails.
AfterPublish_abort(ret) == IF ret < 0 THEN "stopped" ELSE "delay"

\* Where the loop goes after mqtt_publish_data has returned ret: success and
\* failure are logged and the loop goes on to its delay.
AfterPublish(ret) == "delay"

\* The task's call of mqtt_publish_data, up to the test of the global handle
\* at line 443; a NULL handle ends the call there.
custom_publish_enter ==
    /\ custom_pc = "publish"
    /\ IF mqtt_client = NULL
       THEN /\ last' = PublishRecord("custom_publish_task", CUSTOM_PUBLISH_TOPIC,
                                      CustomMsg(publish_count), 0, 0, FALSE, -1,
                                      TaskTime)
            /\ custom_pc' = AfterPublish(last'.ret)
            /\ custom_client' = NULL
            /\ lastCnt' = Sent("custom_publish_task", publish_count)
       ELSE /\ last' = [ op |-> "publish_enter", caller |-> "custom_publish_task",
                         client |-> mqtt_client, calls |-> <<>> ]
            /\ custom_pc' = "call"
            /\ custom_client' = mqtt_client
            /\ UNCHANGED lastCnt
    /\ UNCHANGED <<sessVars, stats, brokerVars, publish_count, publisherVars, sensorVars>>

\* The rest of the call. The global is read again at line 460 with nothing
\* ordering the two reads against a writer: the handle passed is the one
\* tested or the one the global holds now.
custom_publish_call ==
    /\ custom_pc = "call"
    /\ \E h \in { custom_client, mqtt_client }, tret \in TransportRets :
        last' = CallRecord("custom_publish_task", custom_client, h,
                           PublishTransport(h, CUSTOM_PUBLISH_TOPIC,
                                            CustomMsg(publish_count), 0, 0,
                                            FALSE, tret),
                           CUSTOM_PUBLISH_TOPIC, CustomMsg(publish_count),
                           0, 0, FALSE, tret, TaskTime)
    /\ custom_pc' = AfterPublish(last'.ret)
    /\ custom_client' = NULL
    /\ lastCnt' = Sent("custom_publish_task", publish_count)
    /\ UNCHANGED <<sessVars, stats, brokerVars, publish_count, publisherVars, sensorVars>>

\* ------------------------------------------------------- specification

SessionAtBoot ==
    /\ mqtt_client = NULL
    /\ session = "Idle"
    /\ connects = 0
    /\ subLog = <<>>
    /\ live = {}
    /\ clients = 0
    /\ configs = <<>>
    /\ retained = NothingRetained

TasksAtBoot ==
    /\ custom_pc = "delay"
    /\ publish_count = 0
    /\ custom_client = NULL
    /\ pub_pc = "uncreated"
    /\ contador = 0
    /\ temperatura = 0
    /\ umidade = 0
    /\ sensor_pc = "check"
    /\ lastCnt = [ t \in CounterTasks |-> -1 ]

Init ==
    /\ SessionAtBoot
    /\ TasksAtBoot
    /\ stats = ZeroStats
    /\ last = [ op |-> "boot", calls |-> <<>> ]

Next ==
    \/ mqtt_system_init
    \/ PublishCall
    \/ MQTT_EVENT_CONNECTED
    \/ MQTT_EVENT_DISCONNECTED
    \/ MQTT_EVENT_DATA
    \/ MQTT_EVENT_ERROR
    \/ MQTT_EVENT_OTHER
    \/ custom_check
    \/ custom_publish_enter
    \/ custom_publish_call

Spec == Init /\ [][Next]_vars

\* --------------------------------- starting and shutting down, at any time

\* The session's life with mqtt_app_start and mqtt_system_shutdown called in
\* any state, while custom_publish_task publishes.
NextLifecycle ==
    \/ mqtt_app_start
    \/ mqtt_system_shutdown
    \/ MQTT_EVENT_CONNECTED
    \/ MQTT_EVENT_DISCONNECTED
    \/ MQTT_EVENT_ERROR
    \/ custom_check
    \/ custom_publish_enter
    \/ custom_publish_call

SpecLifecycle == Init /\ [][NextLifecycle]_vars

\* ---------------------------------------------------- mqtt_publisher_task

\* What rand() may return.
RandSamples == { 0, 2147483647 }

\* "%.2f" of a value held in tenths.
Fmt2(tenths) ==
    ToString(tenths \div 10) \o "." \o ToString(tenths % 10) \o "0"

TelemetryMsg(t, u, cnt) ==
    "{\"temp\":" \o Fmt2(t) \o ",\"umid\":" \o Fmt2(u)
        \o ",\"cnt\":" \o ToString(cnt) \o "}"

\* The status message of the loop's head.
StatusMsg ==
    [ topic |-> "demo/status/central", data |-> "ONLINE", len |-> 0,
      qos |-> 1, retain |-> TRUE ]

\* Nothing under src/ creates mqtt_publisher_task: app_main creates
\* system_monitor_task, custom_publish_task and sensor_simulate_task. The
\* task runs once a user of mqtt.c has created it, which may never happen;
\* it starts with its counter at 0, and after its first delay is at the head
\* of its loop.
mqtt_publisher_task_created ==
    /\ pub_pc = "uncreated"
    /\ clients > 0
    /\ pub_pc' = "status"
    /\ UNCHANGED <<sessVars, stats, brokerVars, last, customVars, contador,
                   temperatura, umidade, sensorVars, lastCnt>>

\* The head of the loop, after the delay: the status message. No step of the
\* loop tests the connection.
publisher_status ==
    /\ pub_pc = "status"
    /\ clients > 0
    /\ \E tret \in TransportRets :
        last' = PublishRecord("mqtt_publisher_task", StatusMsg.topic,
                              StatusMsg.data, StatusMsg.len, StatusMsg.qos,
                              StatusMsg.retain, tret, TaskTime)
    /\ pub_pc' = "temperatura"
    /\ UNCHANGED <<sessVars, stats, brokerVars, customVars, contador, temperatura, umidade,
                   sensorVars, lastCnt>>

publisher_temperatura ==
    /\ pub_pc = "temperatura"
    /\ \E r \in RandSamples, tret \in TransportRets :
        /\ temperatura' = 200 + (r % 100)
        /\ last' = PublishRecord("mqtt_publisher_task", "jardim/central/temperatura",
                                 Fmt2(temperatura'), 0, 0, FALSE, tret, TaskTime)
    /\ pub_pc' = "umidade"
    /\ UNCHANGED <<sessVars, stats, brokerVars, customVars, contador, umidade, sensorVars,
                   lastCnt>>

publisher_umidade ==
    /\ pub_pc = "umidade"
    /\ \E r \in RandSamples, tret \in TransportRets :
        /\ umidade' = 300 + (r % 500)
        /\ last' = PublishRecord("mqtt_publisher_task", "jardim/sensor1/umidade",
                                 Fmt2(umidade'), 0, 0, FALSE, tret, TaskTime)
    /\ pub_pc' = "telemetria"
    /\ UNCHANGED <<sessVars, stats, brokerVars, customVars, contador, temperatura,
                   sensorVars, lastCnt>>

\* The message carries the counter as it is, and the counter is one higher
\* afterwards (contador++). The two readings are locals of the loop's body
\* and end with it.
publisher_send(capped) ==
    /\ pub_pc = "telemetria"
    /\ capped => contador < MaxContador
    /\ \E tret \in TransportRets :
        last' = PublishRecord("mqtt_publisher_task", "jardim/central/telemetria",
                              TelemetryMsg(temperatura, umidade, contador),
                              0, 1, FALSE, tret, TaskTime)
    /\ contador' = Incremented(contador, MaxContador)
    /\ lastCnt' = Sent("mqtt_publisher_task", contador)
    /\ pub_pc' = "status"
    /\ temperatura' = 0
    /\ umidade' = 0
    /\ UNCHANGED <<sessVars, stats, brokerVars, customVars, sensorVars>>

publisher_telemetria == publisher_send(TRUE)

\* --------------------------------------------------- sensor_simulate_task

\* What esp_random() may return: 0, 50 and 2^31 - 1.
EspRandomSamples == { U32(0, 0), U32(0, 50), U32(Half \div 2 - 1, Half - 1) }

\* int luminosity = esp_random() % 11
SensorLuminosity(r) == ToInt(U32Mod(r, 11))

\* int temperature = (esp_random() % 49) - 3: the int 3 is converted to the
\* unsigned type of the left operand.
SensorTemperature(r) == ToInt(U32Sub(U32Mod(r, 49), U32(0, 3)))

sensor_check ==
    /\ sensor_pc = "check"
    /\ clients > 0
    /\ sensor_pc' = IF mqtt_system_is_connected THEN "luminosity" ELSE "check"
    /\ last' = [ op |-> "sensor_check", connected |-> mqtt_system_is_connected,
                 calls |-> <<>> ]
    /\ UNCHANGED <<sessVars, stats, brokerVars, customVars, publisherVars, lastCnt>>

sensor_luminosity ==
    /\ sensor_pc = "luminosity"
    /\ \E r \in EspRandomSamples, tret \in TransportRets :
        last' = PublishRecord("sensor_simulate_task", "/casa/externo/luminosidade",
                              ToString(SensorLuminosity(r)), 0, 1, FALSE, tret, TaskTime)
    /\ sensor_pc' = "temperature"
    /\ UNCHANGED <<sessVars, stats, brokerVars, customVars, publisherVars, lastCnt>>

sensor_temperature ==
    /\ sensor_pc = "temperature"
    /\ \E r \in EspRandomSamples, tret \in TransportRets :
        last' = PublishRecord("sensor_simulate_task", "/casa/sala/temperatura",
                              ToString(SensorTemperature(r)), 0, 1, FALSE, tret, TaskTime)
    /\ sensor_pc' = "check"
    /\ UNCHANGED <<sessVars, stats, brokerVars, customVars, publisherVars, lastCnt>>

\* ------------------------------------------- the three periodic publishers

PeriodicTasks ==
    { "mqtt_publisher_task", "custom_publish_task", "sensor_simulate_task" }

SessionEvents ==
    \/ mqtt_system_init
    \/ MQTT_EVENT_CONNECTED
    \/ MQTT_EVENT_DISCONNECTED
    \/ MQTT_EVENT_ERROR

NextTasks ==
    \/ SessionEvents
    \/ custom_check
    \/ custom_publish_enter
    \/ custom_publish_call
    \/ mqtt_publisher_task_created
    \/ publisher_status
    \/ publisher_temperatura
    \/ publisher_umidade
    \/ publisher_telemetria
    \/ sensor_check
    \/ sensor_luminosity
    \/ sensor_temperature

SpecTasks == Init /\ [][NextTasks]_vars

\* ------------------------------------- the publishers, scheduled fairly

CustomStep ==
    \/ custom_poll(FALSE)
    \/ custom_publish_enter
    \/ custom_publish_call

PublisherStep ==
    \/ publisher_status
    \/ publisher_temperatura
    \/ publisher_umidade
    \/ publisher_send(FALSE)

SensorStep ==
    \/ sensor_check
    \/ sensor_luminosity
    \/ sensor_temperature

\* app_main creates custom_publish_task and sensor_simulate_task once
\* mqtt_system_init has succeeded: one client, started, its connection under
\* way, and mqtt_publisher_task not created.
InitLive ==
    /\ mqtt_client = 1
    /\ session = "Connecting"
    /\ connects = 0
    /\ subLog = <<>>
    /\ live = { 1 }
    /\ clients = 1
    /\ configs = <<Created("started")>>
    /\ retained = NothingRetained
    /\ TasksAtBoot
    /\ stats = ZeroStats
    /\ last = [ op |-> "mqtt_app_start", outcome |-> "started", ret |-> 1,
                from |-> "Idle", pre_client |-> NULL, pre_live |-> {},
                calls |-> <<>>, steps |-> StepsRun("started") ]

NextLive ==
    \/ MQTT_EVENT_CONNECTED
    \/ MQTT_EVENT_DISCONNECTED
    \/ MQTT_EVENT_ERROR
    \/ CustomStep
    \/ mqtt_publisher_task_created
    \/ PublisherStep
    \/ SensorStep

\* Each task waits only in vTaskDelay, for a fixed time, so the scheduler
\* runs each of them again and again once it exists; nothing makes
\* mqtt_publisher_task exist.
SpecLive ==
    /\ InitLive
    /\ [][NextLive]_vars
    /\ WF_vars(CustomStep)
    /\ WF_vars(PublisherStep)
    /\ WF_vars(SensorStep)

\* ------------------------------------------- the broker's retained status

\* The broker publishes the last will of a session that ended without a
\* DISCONNECT packet, and retains it when the will says so. The client
\* identifier is the same at every connection, so the broker has ended the
\* old session, will included, before it accepts the next.
broker_will ==
    /\ last.op = "MQTT_EVENT_DISCONNECTED"
    /\ LET will == configs[SessionClient].cfg.last_will
       IN  /\ will.retain
           /\ retained' = Store(SubSeq(will.msg, 1, will.msg_len))
    /\ UNCHANGED <<sessVars, stats, last, customVars, publisherVars,
                   sensorVars, lastCnt>>

\* The broker receives a retained message on the status topic that the
\* transport of a connected session accepted, and keeps it.
broker_retain ==
    /\ last.op = "publish"
    /\ last.session = "Connected"
    /\ last.ret >= 0
    /\ last.calls # <<>>
    /\ LET call == last.calls[1]
       IN  /\ call.topic = MqttCfg.last_will.topic
           /\ call.retain = 1
           /\ retained' = Store(SubSeq(call.data, 1, call.len))
    /\ UNCHANGED <<sessVars, stats, last, customVars, publisherVars,
                   sensorVars, lastCnt>>

NextBroker ==
    \/ MQTT_EVENT_CONNECTED
    \/ MQTT_EVENT_DISCONNECTED
    \/ MQTT_EVENT_ERROR
    \/ mqtt_publisher_task_created
    \/ publisher_status
    \/ publisher_temperatura
    \/ publisher_umidade
    \/ publisher_send(FALSE)
    \/ broker_will
    \/ broker_retain

\* mqtt_publisher_task may never be created; once it exists it is scheduled
\* again and again (it waits only in vTaskDelay). Nothing in the code makes
\* the transport accept a message or the broker receive it.
SpecBroker ==
    /\ InitLive
    /\ [][NextBroker]_vars
    /\ WF_vars(PublisherStep)


\* ------------------------------------------- the bounded copy, on its own

\* The lengths tried: both ends of int, the values around zero and the values
\* around the last index of a buffer of the given size.
LenProbes(size) ==
    { INT_MIN, INT_MAX }
        \cup ((0 - MaxLenProbe)..MaxLenProbe)
        \cup ((size - 1 - MaxLenProbe)..(size - 1 + MaxLenProbe))

InitCopy ==
    /\ SessionAtBoot
    /\ TasksAtBoot
    /\ stats = ZeroStats
    /\ \E tl \in LenProbes(TOPIC_STR_SIZE), dl \in LenProbes(DATA_STR_SIZE) :
        last = [ op |-> "lens", topic_len |-> tl, data_len |-> dl, calls |-> <<>> ]

\* Lines 229-238: the two lengths copied and the two indices that receive
\* the terminator.
CopyStep ==
    /\ last.op = "lens"
    /\ last' = [ op |-> "copy", topic_len |-> last.topic_len,
                 data_len |-> last.data_len, calls |-> <<>>,
                 topic_copy |-> CopyLen(last.topic_len, TOPIC_STR_SIZE),
                 topic_nul  |-> CopyLen(last.topic_len, TOPIC_STR_SIZE),
                 data_copy  |-> CopyLen(last.data_len, DATA_STR_SIZE),
                 data_nul   |-> CopyLen(last.data_len, DATA_STR_SIZE) ]
    /\ UNCHANGED <<sessVars, stats, brokerVars, customVars, publisherVars, sensorVars,
                   lastCnt>>

NextCopy == CopyStep

SpecCopy == InitCopy /\ [][NextCopy]_vars

\* ------------------------------------- the sensor readings, on their own

\* The values of esp_random() tried: the low values, which cover every
\* remainder of the two divisions, under each of the high halves at the ends
\* and at the middle of the type.
EspRandomProbes ==
    { U32(h, l) : h \in { 0, 1, Half \div 2 - 1, Half \div 2, Half - 1 },
                  l \in (0..MaxRandProbe) \cup { Half - 1 } }

InitSensor ==
    /\ SessionAtBoot
    /\ TasksAtBoot
    /\ stats = ZeroStats
    /\ \E r \in EspRandomProbes :
        last = [ op |-> "esp_random", r |-> r, calls |-> <<>> ]

\* Lines 30-31 and 35-36: the two readings and the text published for each.
\* esp_random is called once for each reading: r is the value of the call
\* at line 30, r2 the value of the call at line 35.
SensorSample ==
    /\ last.op = "esp_random"
    /\ \E r2 \in EspRandomProbes :
        last' = [ op |-> "sensor_sample", r |-> last.r, r2 |-> r2,
                  calls |-> <<>>,
                  luminosity |-> SensorLuminosity(last.r),
                  temperature |-> SensorTemperature(r2),
                  luminosity_text |-> ToString(SensorLuminosity(last.r)),
                  temperature_text |-> ToString(SensorTemperature(r2)) ]
    /\ UNCHANGED <<sessVars, stats, brokerVars, customVars, publisherVars,
                   sensorVars, lastCnt>>

NextSensor == SensorSample

SpecSensor == InitSensor /\ [][NextSensor]_vars

\* ----------------------------------------- the statistics store, on its own

StatsRange ==
    [ total_publicadas : 0..MaxStat, total_recebidas : 0..MaxStat,
      falhas_publicacao : 0..MaxStat, desconexoes : 0..MaxStat,
      tempo_desconectado_ms : 0..MaxStat, ultima_mensagem_ts : 0..MaxStat ]

\* Variant: the whole record cleared.
ResetStatistics_all(st) == ZeroStats

\* mqtt_reset_statistics, declared in mqtt_system.h:190-194: "zera todos os
\* contadores, exceto desconexoes e tempo desconectado".
ResetStatistics(st) ==
    [ st EXCEPT !.total_publicadas = 0, !.total_recebidas = 0,
                !.falhas_publicacao = 0, !.ultima_mensagem_ts = 0 ]

InitStats ==
    /\ SessionAtBoot
    /\ TasksAtBoot
    /\ stats \in StatsRange
    /\ last = [ op |-> "boot", calls |-> <<>> ]

mqtt_reset_statistics ==
    /\ stats' = ResetStatistics(stats)
    /\ last' = [ op |-> "mqtt_reset_statistics", calls |-> <<>>, pre |-> stats ]
    /\ UNCHANGED <<sessVars, brokerVars, customVars, publisherVars, sensorVars,
                   lastCnt>>

NextStats == mqtt_reset_statistics

SpecStats == InitStats /\ [][NextStats]_vars

\* ------------------------------------- several tasks publishing at once

\* The publishing tasks app_main creates.
Workers == { "custom_publish_task", "sensor_simulate_task" }

\* The counters a run starts from.
PriorStats ==
    { st \in StatsRange :
        /\ st.total_recebidas = 0 /\ st.desconexoes = 0
        /\ st.tempo_desconectado_ms = 0 /\ st.ultima_mensagem_ts = 0 }

\* A connected session, and each task about to make one call of
\* mqtt_publish_data.
InitWorkers ==
    /\ mqtt_client = 1
    /\ session = "Connected"
    /\ connects = 1
    /\ subLog = OnConnectedSubscribes
    /\ live = { 1 }
    /\ clients = 1
    /\ configs = <<Created("started")>>
    /\ retained = NothingRetained
    /\ TasksAtBoot
    /\ stats \in PriorStats
    /\ last = [ op |-> "workers", pre |-> stats, calls |-> <<>>,
                done |-> [ w \in Workers |-> FALSE ],
                rets |-> [ w \in Workers |-> 0 ] ]

\* One task's call, whole: nothing in mqtt_publish_data writes a counter.
worker_publish ==
    /\ \E w \in { x \in Workers : ~last.done[x] }, tret \in TransportRets :
        LET r == mqtt_publish_data(mqtt_client, CUSTOM_PUBLISH_TOPIC,
                                   CustomMsg(1), 0, 0, FALSE, tret)
        IN  last' = [ last EXCEPT !.done[w] = TRUE, !.rets[w] = r.ret,
                                  !.calls = r.calls ]
    /\ UNCHANGED <<sessVars, stats, brokerVars, customVars, publisherVars, sensorVars,
                   lastCnt>>

NextWorkers == worker_publish

SpecWorkers == InitWorkers /\ [][NextWorkers]_vars

\* ------------------------------------------------- MQTT topic filters

HasSlash(s) == \E i \in 1..Len(s) : CharAt(s, i) = "/"

FirstSlash(s) ==
    CHOOSE i \in 1..Len(s) :
        CharAt(s, i) = "/" /\ \A j \in 1..(i - 1) : CharAt(s, j) # "/"

\* The levels of a topic or of a filter: its text split on '/'.
RECURSIVE Levels(_)
Levels(s) ==
    IF ~HasSlash(s) THEN <<s>>
    ELSE <<SubSeq(s, 1, FirstSlash(s) - 1)>>
             \o Levels(SubSeq(s, FirstSlash(s) + 1, Len(s)))

\* '+' stands for exactly one level, a final '#' for any number of levels.
RECURSIVE MatchLevels(_, _)
MatchLevels(p, t) ==
    IF p = <<>> THEN t = <<>>
    ELSE IF Head(p) = "#" THEN Len(p) = 1
    ELSE IF t = <<>> THEN FALSE
    ELSE (Head(p) = "+" \/ Head(p) = Head(t)) /\ MatchLevels(Tail(p), Tail(t))

TopicMatches(pattern, topic) == MatchLevels(Levels(pattern), Levels(topic))


\* ================================================================ claims

Ran(h) ==
    \E i \in DOMAIN last.handlers : last.handlers[i].h = h

\* C1: a publish made while the session is not Connected returns -1 and
\* makes no call to the transport's publish.
C1_PublishRejectedWhenNotConnected ==
    (last.op = "publish" /\ last.session # "Connected")
        => (last.ret = -1 /\ last.calls = <<>>)

\* C2: after every transition into Connected each subscription has been
\* issued exactly once for that transition, 'jardim/+/temperatura' at QoS 0
\* first and 'demo/comandos/#' at QoS 1 second: the log of subscribe calls is
\* that pair repeated once per transition.
C2_SubscriptionsOncePerConnect ==
    /\ Len(subLog) = 2 * connects
    /\ \A k \in 1..connects :
        /\ subLog[2 * k - 1] =
             [ fn |-> "subscribe", topic |-> "jardim/+/temperatura", qos |-> 0 ]
        /\ subLog[2 * k] =
             [ fn |-> "subscribe", topic |-> "demo/comandos/#", qos |-> 1 ]
    /\ (last.op = "MQTT_EVENT_CONNECTED" => Len(last.calls) = 2)

C2_Witness ==
    /\ last.op = "MQTT_EVENT_CONNECTED"
    /\ last.from = "Disconnected"
    /\ connects = 2
    /\ Len(subLog) = 4

\* C3: handling the Connected event that ends Connecting publishes a
\* retained "online" status message.
C3_OnlinePublishedOnConnect ==
    (last.op = "MQTT_EVENT_CONNECTED" /\ last.from = "Connecting")
        => \E i \in DOMAIN last.calls :
              /\ last.calls[i].fn = "publish"
              /\ last.calls[i].retain = 1

\* C4: a received message runs at most one handler, and the handler that
\* runs is the one of the first test of the chain that the topic passes.
C4_AtMostOneHandlerFirstMatch ==
    last.op = "MQTT_EVENT_DATA" =>
        LET topic_str == CopyBounded(last.topic, Len(last.topic), TOPIC_STR_SIZE)
            names == << "bomba", "valvula", "temperatura" >>
            passes == << IsBomba(topic_str), IsValvula(topic_str),
                         IsTemperatura(topic_str) >>
            m == { i \in 1..3 : passes[i] }
        IN  /\ Len(last.handlers) <= 1
            /\ (m # {} =>
                  /\ Len(last.handlers) = 1
                  /\ last.handlers[1].h = names[CHOOSE i \in m : \A j \in m : i <= j])

C4_Witness ==
    /\ last.op = "MQTT_EVENT_DATA"
    /\ last.topic = "demo/comandos/bomba"
    /\ Len(last.handlers) = 1
    /\ last.handlers[1].h = "bomba"

\* C5: a handler runs exactly when the topic matches the pattern it was
\* subscribed under, level by level: the temperature handler for
\* 'jardim/+/temperatura', a command handler for 'demo/comandos/#'; a topic
\* that matches neither runs no handler.
C5_RoutedExactlyWhenPatternMatches ==
    last.op = "MQTT_EVENT_DATA" =>
        /\ Ran("temperatura") <=> TopicMatches("jardim/+/temperatura", last.topic)
        /\ (Ran("bomba") \/ Ran("valvula"))
              <=> TopicMatches("demo/comandos/#", last.topic)

\* C6: on 'demo/comandos/bomba' the payload "LIGAR" switches the pump on,
\* "DESLIGAR" switches it off, and every other payload only warns.
C6_PumpCommandExactToken ==
    (last.op = "MQTT_EVENT_DATA" /\ last.topic = "demo/comandos/bomba") =>
        /\ Len(last.handlers) = 1
        /\ last.handlers[1].h = "bomba"
        /\ last.handlers[1].act =
             IF last.data = "LIGAR" THEN "on"
             ELSE IF last.data = "DESLIGAR" THEN "off"
             ELSE "warn"

C6_Witness ==
    /\ last.op = "MQTT_EVENT_DATA"
    /\ last.topic = "demo/comandos/bomba"
    /\ last.data = "LIGAR "
    /\ last.handlers[1].act = "warn"

\* C7: a message on 'demo/comandos/valvula/<n>' runs the valve handler with
\* the number n read from the topic.
C7_ValveTopicDispatched ==
    LET prefix == "demo/comandos/valvula/"
        n == Len(prefix)
    IN  ( /\ last.op = "MQTT_EVENT_DATA"
          /\ Len(last.topic) > n
          /\ SubSeq(last.topic, 1, n) = prefix
          /\ \A i \in (n + 1)..Len(last.topic) : IsDigit(CharAt(last.topic, i)) )
        => /\ Len(last.handlers) = 1
           /\ last.handlers[1].h = "valvula"
           /\ last.handlers[1].num = atoi(SubSeq(last.topic, n + 1, Len(last.topic)))

\* C8, as stated: for every length the copied length is min(len, max) and
\* the terminator lands inside the buffer.
C8_CopyLenIsMin ==
    last.op = "copy" =>
        /\ last.topic_copy = Min(last.topic_len, TOPIC_STR_SIZE - 1)
        /\ last.data_copy = Min(last.data_len, DATA_STR_SIZE - 1)
        /\ last.topic_nul \in 0..(TOPIC_STR_SIZE - 1)
        /\ last.data_nul \in 0..(DATA_STR_SIZE - 1)

\* C8, amended: the copied length is min(len, max) for len >= 0 and max for
\* a negative len; in every case the bytes written and the terminator lie
\* inside the 128-byte and the 256-byte buffer.
C8_CopyStaysInBuffer ==
    last.op = "copy" =>
        /\ last.topic_copy =
             IF last.topic_len < 0 THEN TOPIC_STR_SIZE - 1
             ELSE Min(last.topic_len, TOPIC_STR_SIZE - 1)
        /\ last.data_copy =
             IF last.data_len < 0 THEN DATA_STR_SIZE - 1
             ELSE Min(last.data_len, DATA_STR_SIZE - 1)
        /\ last.topic_copy >= 0 /\ last.data_copy >= 0
        /\ last.topic_nul \in 0..(TOPIC_STR_SIZE - 1)
        /\ last.data_nul \in 0..(DATA_STR_SIZE - 1)

C8_Witness ==
    /\ last.op = "copy"
    /\ last.topic_len < 0
    /\ last.topic_copy = TOPIC_STR_SIZE - 1
    /\ last.data_len > DATA_STR_SIZE
    /\ last.data_nul = DATA_STR_SIZE - 1

\* C9: a publish the transport accepts raises total_publicadas by one and
\* sets ultima_mensagem_ts; one it rejects raises falhas_publicacao by one
\* and leaves total_publicadas alone.
C9_PublishCountsInStatistics ==
    (last.op = "publish" /\ last.session = "Connected" /\ last.calls # <<>>) =>
        IF last.tret >= 0
        THEN /\ stats.total_publicadas = last.pre.total_publicadas + 1
             /\ stats.ultima_mensagem_ts = last.now
        ELSE /\ stats.falhas_publicacao = last.pre.falhas_publicacao + 1
             /\ stats.total_publicadas = last.pre.total_publicadas

\* C10: a reset zeroes total_publicadas, total_recebidas, falhas_publicacao
\* and ultima_mensagem_ts and leaves desconexoes and tempo_desconectado_ms
\* as they were.
C10_ResetKeepsSessionHealth ==
    last.op = "mqtt_reset_statistics" =>
        /\ stats.total_publicadas = 0
        /\ stats.total_recebidas = 0
        /\ stats.falhas_publicacao = 0
        /\ stats.ultima_mensagem_ts = 0
        /\ stats.desconexoes = last.pre.desconexoes
        /\ stats.tempo_desconectado_ms = last.pre.tempo_desconectado_ms

C10_Witness ==
    /\ last.op = "mqtt_reset_statistics"
    /\ last.pre.total_publicadas > 0
    /\ last.pre.ultima_mensagem_ts > 0
    /\ last.pre.desconexoes > 0
    /\ stats.desconexoes > 0
    /\ stats.tempo_desconectado_ms > 0

\* C11: every MQTT_EVENT_DISCONNECTED handled while Connected leaves the
\* session Disconnected and the disconnection counter one higher than it was.
C11_DisconnectCounted ==
    (last.op = "MQTT_EVENT_DISCONNECTED" /\ last.from = "Connected")
        => /\ session = "Disconnected"
           /\ stats.desconexoes = last.pre.desconexoes + 1

\* C12: a call of mqtt_app_start while the session is Connecting or Connected
\* fails and leaves the session, the handle and the set of clients as they
\* were.
C12_StartGuarded ==
    (last.op = "mqtt_app_start" /\ last.from \in { "Connecting", "Connected" })
        => /\ last.ret = NULL
           /\ session = last.from
           /\ mqtt_client = last.pre_client
           /\ live = last.pre_live

\* C13: an MQTT_EVENT_ERROR while Connecting leaves the session Faulted, where
\* mqtt_system_is_connected is false and a publish is rejected without any
\* call to the transport.
C13_FaultedRejectsPublish ==
    /\ (last.op = "MQTT_EVENT_ERROR" /\ last.from = "Connecting")
        => (session = "Faulted" /\ ~mqtt_system_is_connected)
    /\ (last.op = "publish" /\ last.session = "Faulted")
        => (~mqtt_system_is_connected /\ last.ret = -1 /\ last.calls = <<>>)

\* C14: mqtt_system_shutdown, from any state, leaves the session Idle, the
\* global handle NULL and its client released, and not connected; the handle
\* stays NULL until the next start, and every publish that finds it NULL
\* returns -1 without a call to the transport.
C14_ShutdownReleases ==
    /\ [](/\ (last.op = "mqtt_system_shutdown")
               => /\ session = "Idle"
                  /\ mqtt_client = NULL
                  /\ last.pre_client \notin live
                  /\ ~mqtt_system_is_connected
          /\ (last.op = "publish" /\ last.tested = NULL)
               => (last.ret = -1 /\ last.calls = <<>>))
    /\ [][(mqtt_client = NULL /\ mqtt_client' # NULL)
             => last'.op = "mqtt_app_start"]_vars

C14_Witness ==
    /\ last.op = "publish"
    /\ last.tested = NULL
    /\ last.ret = -1
    /\ last.session = "Idle"
    /\ clients > 0
    /\ live = {}

\* C15: when mqtt_system_shutdown releases the client while a publish that
\* has tested the handle is under way, the handle the publish passes to
\* esp_mqtt_client_publish is neither NULL nor a released client.
C15_NoReleasedHandleToTransport ==
    (last.op = "publish" /\ last.calls # <<>> /\ ~last.tested_valid)
        => (last.client # NULL /\ last.valid)

\* C19: a call of mqtt_publish_data that reaches the transport passes the
\* payload unchanged, with the length of the whole text when len is 0 and
\* with len itself otherwise, and returns the transport's message id when
\* that is not negative and -1 when it is; a call that does not reach the
\* transport returns -1.
C19_PublishLengthAndResult ==
    last.op = "publish"
        => /\ Len(last.calls) <= 1
           /\ last.calls = <<>> => last.ret = -1
           /\ last.calls # <<>> =>
                /\ last.calls[1].data = last.data
                /\ last.calls[1].topic = last.topic
                /\ last.calls[1].len =
                     IF last.len = 0 THEN Len(last.data) ELSE last.len
                /\ last.ret = IF last.tret >= 0 THEN last.tret ELSE -1

C19_Witness ==
    /\ last.op = "publish"
    /\ last.len = 0
    /\ last.data = "ONLINE"
    /\ last.calls # <<>>
    /\ last.calls[1].len = 6
    /\ last.tret = -2
    /\ last.ret = -1

\* C16: a cycle of a periodic publisher that meets a session which is not
\* connected makes no publish call: custom_publish_task and
\* sensor_simulate_task stay before their publish step when their test says
\* not connected, and a call by mqtt_publisher_task while the session is not
\* connected reaches no transport call.
C16_NoPublishWhenNotConnected ==
    /\ (last.op = "custom_check" /\ ~last.connected) => custom_pc = "delay"
    /\ (last.op = "sensor_check" /\ ~last.connected) => sensor_pc = "check"
    /\ (last.op = "publish" /\ last.caller = "mqtt_publisher_task"
            /\ last.session # "Connected")
        => last.calls = <<>>

\* C20: every telemetry call of mqtt_publisher_task and of
\* custom_publish_task carries, in its text, a counter greater than the one
\* the task's previous telemetry call carried, the first being 0 for
\* mqtt_publisher_task and 1 for custom_publish_task, whatever the earlier
\* calls returned; no other step touches the counters carried.
C20_CounterStrictlyIncreasing ==
    [][/\ (pub_pc = "telemetria" /\ pub_pc' = "status")
            => /\ last'.op = "publish"
               /\ last'.caller = "mqtt_publisher_task"
               /\ last'.data = TelemetryMsg(temperatura, umidade,
                                            lastCnt'["mqtt_publisher_task"])
               /\ lastCnt'["mqtt_publisher_task"] > lastCnt["mqtt_publisher_task"]
               /\ lastCnt["mqtt_publisher_task"] = -1
                    => lastCnt'["mqtt_publisher_task"] = 0
       /\ (custom_pc \in { "publish", "call" } /\ custom_pc' = "delay")
            => /\ last'.op = "publish"
               /\ last'.caller = "custom_publish_task"
               /\ last'.data = CustomMsg(lastCnt'["custom_publish_task"])
               /\ lastCnt'["custom_publish_task"] > lastCnt["custom_publish_task"]
               /\ lastCnt["custom_publish_task"] = -1
                    => lastCnt'["custom_publish_task"] = 1
       /\ ~(pub_pc = "telemetria" /\ pub_pc' = "status")
            => lastCnt'["mqtt_publisher_task"] = lastCnt["mqtt_publisher_task"]
       /\ ~(custom_pc \in { "publish", "call" } /\ custom_pc' = "delay")
            => lastCnt'["custom_publish_task"] = lastCnt["custom_publish_task"]
      ]_vars

C20_Witness ==
    /\ last.op = "publish"
    /\ last.caller = "mqtt_publisher_task"
    /\ last.topic = "jardim/central/telemetria"
    /\ last.ret = -1
    /\ lastCnt["mqtt_publisher_task"] = 1
    /\ lastCnt["custom_publish_task"] = 2

Published(task) ==
    last.op = "publish" /\ last.caller = task /\ last.calls # <<>>

\* A task of app_main exists from the start; mqtt_publisher_task exists once
\* it has been created.
TaskExists(task) == task = "mqtt_publisher_task" => pub_pc # "uncreated"

\* C17: each task that exists always has a step to take, whatever the
\* session's state and whatever its publishes returned, and if the session
\* is Connected from some point on then each of the three tasks, once it
\* exists, publishes again and again.
C17_PublishersSurviveDisconnection ==
    /\ [](clients > 0 => /\ ENABLED CustomStep
                         /\ ENABLED SensorStep
                         /\ TaskExists("mqtt_publisher_task")
                                => ENABLED PublisherStep)
    /\ \A task \in PeriodicTasks :
         <>[](session = "Connected" /\ TaskExists(task)) => []<>Published(task)

C17_Witness ==
    /\ Published("mqtt_publisher_task")
    /\ lastCnt["custom_publish_task"] > 0
    /\ session = "Connected"
    /\ connects = 2

\* C18: when the tasks publishing at the same time have all returned,
\* total_publicadas is what it was plus the number of calls that succeeded
\* and falhas_publicacao is what it was plus the number of calls that failed.
C18_NoLostUpdate ==
    (last.op = "workers" /\ \A w \in Workers : last.done[w])
        => /\ stats.total_publicadas = last.pre.total_publicadas
                + Cardinality({ w \in Workers : last.rets[w] >= 0 })
           /\ stats.falhas_publicacao = last.pre.falhas_publicacao
                + Cardinality({ w \in Workers : last.rets[w] < 0 })


\* C21: the last will of every client is the tuple (topic
\* demo/status/central, payload OFFLINE, QoS 1, retained), it is part of the
\* configuration the client is created with, the creation precedes the
\* start of the first connection attempt, and no event or operation changes
\* the will of a client once created.
C21_LastWillSetOnce ==
    /\ [](\A c \in DOMAIN configs :
            configs[c].cfg.last_will =
                [ topic |-> "demo/status/central", msg |-> "OFFLINE",
                  msg_len |-> Len("OFFLINE"), qos |-> 1, retain |-> TRUE ])
    /\ [](last.op = "mqtt_app_start" /\ last.outcome # "init_failed"
            => Before(last.steps, "esp_mqtt_client_init",
                      "esp_mqtt_client_start"))
    /\ [][\A c \in DOMAIN configs :
            c \in DOMAIN configs' /\ configs'[c].cfg = configs[c].cfg]_vars

\* Two clients created, and the session of the second dropped after it was
\* connected.
C21_Witness ==
    /\ Len(configs) = 2
    /\ configs[2].started
    /\ last.op = "MQTT_EVENT_DISCONNECTED"


\* C22: a call of mqtt_app_start that returns NULL leaves the shared handle
\* NULL, and every call of mqtt_publish_data made while no start has
\* succeeded returns -1 without a call to the transport.
C22_FailedStartLeavesNoSession ==
    /\ (last.op = "mqtt_app_start" /\ last.ret = NULL => mqtt_client = NULL)
    /\ (last.op = "publish" /\ last.session = "Idle"
            => last.ret = -1 /\ last.calls = <<>>)


\* C23: custom_publish_task reports a publication as made exactly when
\* mqtt_publish_data returned a message id (a value >= 0) and as failed
\* exactly when it returned -1.
C23_ReportMatchesResult ==
    last.op = "publish" /\ last.caller = "custom_publish_task"
        => /\ (last.reported = "success" <=> last.ret >= 0)
           /\ (last.reported = "failure" <=> last.ret = -1)


\* C24: when the broker holds the retained last will OFFLINE on the status
\* topic and the session is connected again, the retained message becomes
\* ONLINE unless the session is dropped first; and no step of a session that
\* stays connected puts OFFLINE in the place of another retained message.
C24_RetainedStatusRecovers ==
    /\ (retained.msg = "OFFLINE" /\ session = "Connected")
            ~> (retained.msg = "ONLINE" \/ session # "Connected")
    /\ [][session = "Connected" /\ session' = "Connected"
            /\ retained.msg # "OFFLINE" => retained'.msg # "OFFLINE"]_vars

\* C25: mqtt_event_handler is registered on the client before the client is
\* started, and so every event the transport emits is delivered to it: a
\* Connected event, the first included, issues the subscriptions, and a
\* received message is dispatched.
C25_HandlerBeforeStart ==
    /\ (last.op = "mqtt_app_start" /\ last.outcome # "init_failed"
            => Before(last.steps, "esp_mqtt_client_register_event",
                      "esp_mqtt_client_start"))
    /\ (last.op \in { "MQTT_EVENT_CONNECTED", "MQTT_EVENT_DISCONNECTED",
                      "MQTT_EVENT_DATA", "MQTT_EVENT_ERROR" }
            => last.delivered)
    /\ (last.op = "MQTT_EVENT_CONNECTED"
            => /\ last.calls = OnConnectedSubscribes
               /\ Len(subLog) = connects * Len(OnConnectedSubscribes))
    /\ (last.op = "MQTT_EVENT_DATA"
            => last.dispatch = <<"processar_mensagem_mqtt">>)

\* The first Connected event of the session, handled.
C25_Witness ==
    /\ last.op = "MQTT_EVENT_CONNECTED"
    /\ last.from = "Connecting"
    /\ connects = 1
    /\ subLog = OnConnectedSubscribes


\* r = v modulo m, for a 32-bit unsigned r and a small v >= 0.
Congruent(r, v, m) == ((r.hi % m) * (Half % m) + r.lo + m - (v % m)) % m = 0

\* C26: for every 32-bit unsigned value r of esp_random the luminosity
\* published is r mod 11, in 0..10, and for every such value r2 the
\* temperature published is (r2 mod 49) - 3, in -3..45: the subtraction made
\* in unsigned 32-bit arithmetic, wrapping when r2 mod 49 < 3, and its result
\* read as an int.
C26_SensorRanges ==
    last.op = "sensor_sample" =>
        /\ last.luminosity \in 0..10
        /\ Congruent(last.r, last.luminosity, 11)
        /\ last.temperature \in (0 - 3)..45
        /\ Congruent(last.r2, last.temperature + 3, 49)
        /\ last.luminosity_text = ToString(last.luminosity)
        /\ last.temperature_text = ToString(last.temperature)
        /\ LET m == U32Mod(last.r2, 49)
           IN  m.lo < 3 =>
                 /\ U32Sub(m, U32(0, 3)) = U32(Half - 1, Half - 3 + m.lo)
                 /\ last.temperature = m.lo - 3

\* A second random value in the upper half of the type whose remainder by
\* 49 is 0, after a first one whose remainder by 11 is 10: the subtraction
\* wrapped and the temperature is -3.
C26_Witness ==
    /\ last.op = "sensor_sample"
    /\ last.r # last.r2
    /\ last.luminosity = 10
    /\ last.r2.hi >= Half \div 2
    /\ U32Mod(last.r2, 49).lo = 0
    /\ last.temperature = 0 - 3
    /\ last.temperature_text = "-3"

=============================================================================
